---- MODULE Spec2Model ----
(***************************************************************************)
(* Model of the schema drift detection run (scripts/schema-drift-check.ts) *)
(* of the integration-testing framework: main, checkWsdlDrift,             *)
(* extractOperationNames, checkMessageSchemaDrift and generateReport.      *)
(*                                                                         *)
(* The environment (files on disk, environment variables) is chosen in     *)
(* Init; what the network answers and what a file holds is chosen at the   *)
(* step that fetches or reads it.  The XML and JSON documents are modelled *)
(* by the tree the parser hands to the script.                             *)
(***************************************************************************)
EXTENDS Integers, Sequences, FiniteSets, TLC

\* ---- Bounds ----------------------------------------------------------------
MaxOps == 2
MaxFields == 2

OpNames == {"CreateOrder", "GetOrderStatus"}
FieldNames == {"eventId", "priority"}

\* an <operation> node whose @_name is absent or empty (dropped by filter(Boolean))
NoName == ""

SeqsUpTo(S, n) == UNION {[1..k -> S] : k \in 0..n}

\* Array.prototype.includes
Includes(s, x) == \E i \in 1..Len(s) : s[i] = x

\* Array.prototype.filter(pred).length
RECURSIVE CountIf(_, _)
CountIf(s, drift) ==
    IF s = <<>> THEN 0
    ELSE (IF Head(s).drifted = drift THEN 1 ELSE 0) + CountIf(Tail(s), drift)

\* ---- Documents -------------------------------------------------------------
\* A WSDL text, by what XMLParser.parse makes of it:
\*   malformed  the parser throws
\*   nodefs     no <definitions> root
\*   nobinding  <definitions> without <binding>
\*   binding    <binding> whose `operation` member is absent (shape none),
\*              one object (shape single) or an array of two or more nodes
NoDoc == [kind |-> "none", shape |-> "none", ops |-> <<>>]

WsdlDocs ==
    {[kind |-> k, shape |-> "none", ops |-> <<>>] :
        k \in {"malformed", "nodefs", "nobinding", "binding"}}
    \cup {[kind |-> "binding", shape |-> "single", ops |-> <<n>>] :
        n \in OpNames \cup {NoName}}
    \cup {[kind |-> "binding", shape |-> "array", ops |-> s] :
        s \in {t \in SeqsUpTo(OpNames \cup {NoName}, MaxOps) : Len(t) >= 2}}

\* The operation names a WSDL document declares (its structural projection).
DeclaredOps(doc) == {doc.ops[i] : i \in 1..Len(doc.ops)} \ {NoName}

\* A JSON text, by what JSON.parse / response.json() makes of it:
\*   invalid  the parse throws;  null  the JSON value null;
\*   object   an object with or without a `required` array
NoJson == [kind |-> "none", hasRequired |-> FALSE, required |-> <<>>]

JsonDocs ==
    {[kind |-> k, hasRequired |-> FALSE, required |-> <<>>] :
        k \in {"invalid", "null", "object"}}
    \cup {[kind |-> "object", hasRequired |-> TRUE, required |-> s] :
        s \in SeqsUpTo(FieldNames, MaxFields)}

\* The required field names a JSON schema object declares.
RequiredSet(doc) == {doc.required[i] : i \in 1..Len(doc.required)}

\* ---- DriftResult -----------------------------------------------------------
\* A detail is <<text, interpolated value>>.
WsdlSchemaName == "App2 WSDL (order-service.wsdl)"
MsgSchemaName == "Integration Layer Message Schemas"

NewResult(name) == [schema |-> name, drifted |-> FALSE, details |-> <<>>]
NoResult == NewResult("")

PushDetail(result, text, value) ==
    [result EXCEPT !.details = Append(@, <<text, value>>)]

Thrown(msg) == [threw |-> TRUE, message |-> msg, value |-> <<>>]
Returned(v) == [threw |-> FALSE, message |-> "", value |-> v]

\* ---- WSDL drift check ------------------------------------------------------
extractOperationNames(parsed) ==
    IF parsed.kind # "binding" THEN Returned(<<>>)
    ELSE IF parsed.shape = "none"
         \* [binding.operation] is [undefined]; op["@_name"] throws
         THEN Thrown("Cannot read properties of undefined (reading '@_name')")
         ELSE Returned(SelectSeq(parsed.ops, LAMBDA n : n # NoName))

\* mutant: the loop walks its list from the end
DiffLoop_Reversed(result, names, others, text) ==
    LET lacking == SelectSeq(names, LAMBDA n : ~Includes(others, n))
        pushed == [i \in 1..Len(lacking) |-> <<text, lacking[Len(lacking) + 1 - i]>>]
    IN  [result EXCEPT !.details = @ \o pushed,
                       !.drifted = @ \/ lacking # <<>>]

\* the two for-loops of a comparison: removed names first, then added names
RECURSIVE DiffLoop(_, _, _, _)
DiffLoop(result, names, others, text) ==
    IF names = <<>> THEN result
    ELSE DiffLoop(
            IF ~Includes(others, Head(names))
            THEN [PushDetail(result, text, Head(names)) EXCEPT !.drifted = TRUE]
            ELSE result,
            Tail(names), others, text)

\* mutant: the loop over the live names is missing
Compare_RemovedOnly(result, local, live, removedText, addedText, matchText) ==
    LET r1 == DiffLoop(result, local, live, removedText)
    IN  IF ~r1.drifted THEN PushDetail(r1, matchText, "") ELSE r1

Compare(result, local, live, removedText, addedText, matchText) ==
    LET r1 == DiffLoop(result, local, live, removedText)
        r2 == DiffLoop(r1, live, local, addedText)
    IN  IF ~r2.drifted THEN PushDetail(r2, matchText, "") ELSE r2

\* mutant: the APP2_STAGING_URL test is missing
checkWsdlDriftEntry_NoUrlTest(exists, url) ==
    LET result == NewResult(WsdlSchemaName)
    IN  IF ~exists
        THEN [result |-> [PushDetail(result, "Local WSDL file not found", "")
                            EXCEPT !.drifted = TRUE],
              fetch |-> FALSE]
        ELSE [result |-> result, fetch |-> TRUE]

\* checkWsdlDrift up to the fetch: [result, fetch] where fetch says the
\* function suspends on the live fetch instead of returning result
checkWsdlDriftEntry(exists, url) ==
    LET result == NewResult(WsdlSchemaName)
    IN  IF ~exists
        THEN [result |-> [PushDetail(result, "Local WSDL file not found", "")
                            EXCEPT !.drifted = TRUE],
              fetch |-> FALSE]
        ELSE IF ~url
        THEN [result |-> PushDetail(result,
                "APP2_STAGING_URL not set - skipping live WSDL fetch", ""),
              fetch |-> FALSE]
        ELSE [result |-> result, fetch |-> TRUE]

\* mutant: the catch block marks the result as drifted
WsdlCatch_MarksDrift(result, msg) ==
    [PushDetail(result, "Error checking WSDL drift: ", msg) EXCEPT !.drifted = TRUE]

WsdlCatch(result, msg) ==
    PushDetail(result, "Error checking WSDL drift: ", msg)

\* checkWsdlDrift from the settled fetch on (the try block and its catch)
checkWsdlDriftResume(result, outcome, localDoc, liveDoc) ==
    IF outcome = "reject" THEN WsdlCatch(result, "fetch failed")
    ELSE IF outcome = "notok"
    THEN [PushDetail(result, "Failed to fetch live WSDL: HTTP ", "status")
            EXCEPT !.drifted = TRUE]
    ELSE IF localDoc.kind = "malformed" \/ liveDoc.kind = "malformed"
    THEN WsdlCatch(result, "XML parse error")
    ELSE LET localOps == extractOperationNames(localDoc)
             liveOps == extractOperationNames(liveDoc)
         IN  IF localOps.threw THEN WsdlCatch(result, localOps.message)
             ELSE IF liveOps.threw THEN WsdlCatch(result, liveOps.message)
             ELSE Compare(result, localOps.value, liveOps.value,
                          "Operation REMOVED from live WSDL: ",
                          "New operation in live WSDL: ",
                          "All operations match")

\* ---- Message schema drift check --------------------------------------------
checkMessageSchemaDriftEntry(url) ==
    LET result == NewResult(MsgSchemaName)
    IN  IF ~url
        THEN [result |-> PushDetail(result,
                "INTEGRATION_LAYER_URL not set - skipping live schema fetch", ""),
              fetch |-> FALSE]
        ELSE [result |-> result, fetch |-> TRUE]

MsgCatch(result, msg) ==
    PushDetail(result, "Error checking message schema drift: ", msg)

\* mutant: the local schema is read before the status is tested
MsgReadsLocal_BeforeStatus(outcome, liveSchema) ==
    outcome # "reject" /\ liveSchema.kind # "invalid"

\* does the resumed function get as far as reading the local schema file
MsgReadsLocal(outcome, liveSchema) ==
    outcome = "ok" /\ liveSchema.kind # "invalid"

\* `schema.required || []`
RequiredOf(schema) ==
    IF schema.kind = "null"
    THEN Thrown("Cannot read properties of null (reading 'required')")
    ELSE Returned(IF schema.hasRequired THEN schema.required ELSE <<>>)

checkMessageSchemaDriftResume(result, outcome, fileExists, localSchema, liveSchema) ==
    IF outcome = "reject" THEN MsgCatch(result, "fetch failed")
    ELSE IF outcome = "notok"
    THEN PushDetail(result,
          "Integration Layer does not expose schemas via API - manual check required", "")
    ELSE IF liveSchema.kind = "invalid" THEN MsgCatch(result, "Unexpected token")
    ELSE IF ~fileExists THEN MsgCatch(result, "ENOENT: no such file or directory")
    ELSE IF localSchema.kind = "invalid" THEN MsgCatch(result, "Unexpected token")
    ELSE LET localRequired == RequiredOf(localSchema)
             liveRequired == RequiredOf(liveSchema)
         IN  IF localRequired.threw THEN MsgCatch(result, localRequired.message)
             ELSE IF liveRequired.threw THEN MsgCatch(result, liveRequired.message)
             ELSE Compare(result, localRequired.value, liveRequired.value,
                          "Required field removed from live schema: ",
                          "New required field in live schema: ",
                          "Message schemas match")

\* ---- Report and completion status ------------------------------------------
\* mutant: clean counts the drifted results (the negation is missing)
Summary_CleanNotNegated(rs) ==
    [total |-> Len(rs), drifted |-> CountIf(rs, TRUE), clean |-> CountIf(rs, TRUE)]

Summary(rs) ==
    [total |-> Len(rs), drifted |-> CountIf(rs, TRUE), clean |-> CountIf(rs, FALSE)]

MakeReport(rs) == [results |-> rs, summary |-> Summary(rs)]

\* mutant: only the first result is looked at
hasDrift_FirstOnly(rs) == Len(rs) >= 1 /\ rs[1].drifted

hasDrift(rs) == \E i \in 1..Len(rs) : rs[i].drifted

\* mutant: main stops checking at the first drifted result
AfterWsdlCheck_StopOnDrift(result) == IF result.drifted THEN "report" ELSE "msg"

\* where main goes once the WSDL check has returned
AfterWsdlCheck(result) == "msg"

\* ---- WsdlValidator: documents ------------------------------------------------
MaxItems == 2
MaxChildren == 2

\* an XML attribute that is absent (or empty): undefined or "", both falsy
NoAttr == ""

SoapFields == {"customerId", "shippingAddress"}
\* the child elements a wrapper may hold, in document order
ChildOrder == <<"customerId", "shippingAddress", "notes">>

\* a JavaScript Map: the entries [key, val] in insertion order
MapHas(m, k) == \E i \in 1..Len(m) : m[i].key = k
MapGet(m, k) == m[CHOOSE i \in 1..Len(m) : m[i].key = k].val
\* mutant: an array push instead of a keyed set
MapSet_Push(m, k, v) == Append(m, [key |-> k, val |-> v])

MapSet(m, k, v) ==
    IF MapHas(m, k)
    THEN [i \in 1..Len(m) |-> IF m[i].key = k THEN [key |-> k, val |-> v] ELSE m[i]]
    ELSE Append(m, [key |-> k, val |-> v])
MapValues(m) == [i \in 1..Len(m) |-> m[i].val]
MapKeys(m) == [i \in 1..Len(m) |-> m[i].key]

\* an <element> under a <sequence>, by its attributes name, type, minOccurs
ItemNode(n, t, m) == [name |-> n, type |-> t, minOccurs |-> m]

ItemNodes ==
    {ItemNode("customerId", NoAttr, NoAttr),
     ItemNode("shippingAddress", "xs:string", "1"),
     ItemNode(NoAttr, NoAttr, NoAttr)}
    \cup {ItemNode(f, "xs:string", "0") : f \in SoapFields}

\* a top-level <element> of the types section: shape "none" has no
\* complexType/sequence, shape "sequence" has one with the given items
ElementNode(n, s, items) == [name |-> n, shape |-> s, items |-> items]

ElementNodes(names) ==
    {ElementNode(n, "none", <<>>) : n \in names}
    \cup {ElementNode(n, "sequence", items) :
            n \in names, items \in SeqsUpTo(ItemNodes, MaxItems)}

\* the element of the other direction of the same operation, with one field
Dual(e) ==
    ElementNode(IF e.name = "CreateOrderRequest" THEN "CreateOrderResponse"
                                                 ELSE "CreateOrderRequest",
                "sequence", <<ItemNode("shippingAddress", "xs:string", NoAttr)>>)

ElementLists ==
    {<<>>}
    \cup {<<e>> : e \in ElementNodes({"CreateOrderRequest", "CreateOrderResponse"})}
    \cup {<<e, Dual(e)>> : e \in ElementNodes({"CreateOrderRequest", "CreateOrderResponse"})}

\* an <operation> of the binding: its name and the soapAction of its nested
\* <soap:operation> (NoAttr when there is none)
\* the value of a member that is not there
Undefined == "undefined"

OpNode(n, a) == [name |-> n, soapAction |-> a]
ActionOf(n) == "http://app2.example.com/orders/" \o n
OpNodes ==
    {OpNode(n, a) : n \in OpNames, a \in {Undefined, ""}}
    \cup {OpNode(n, ActionOf(n)) : n \in OpNames}

\* A WSDL text as WsdlValidator's xmlParser sees it:
\*   malformed  the parser throws;  nodefs  no <definitions> root;
\*   ok         a types section with the given top-level elements and a
\*              binding that is absent, has no operation, or has the given ones
WsdlSource(k, es, b, ops) == [kind |-> k, elements |-> es, binding |-> b, ops |-> ops]

WsdlSourcesWith(opSeqs) ==
    {WsdlSource(k, <<>>, "absent", <<>>) : k \in {"malformed", "nodefs"}}
    \cup {WsdlSource("ok", es, b, <<>>) : es \in ElementLists, b \in {"absent", "none"}}
    \cup {WsdlSource("ok", es, "ops", ops) : es \in ElementLists, ops \in opSeqs}

\* every binding of up to MaxOps operations, names and actions repeated or not
WsdlSources == WsdlSourcesWith({s \in SeqsUpTo(OpNodes, MaxOps) : Len(s) >= 1})

\* the order service: CreateOrder alone or followed by GetOrderStatus
ServiceSources ==
    {WsdlSource("malformed", <<>>, "absent", <<>>),
     WsdlSource("ok", <<>>, "none", <<>>)}
    \cup {WsdlSource("ok", es, "ops", ops) :
            es \in ElementLists,
            ops \in {<<OpNode("CreateOrder", ActionOf("CreateOrder"))>>,
                     <<OpNode("CreateOrder", ActionOf("CreateOrder")),
                       OpNode("GetOrderStatus", Undefined)>>}}

\* loadWsdl calls on one WsdlValidator in a run of several loads
MaxWsdlLoads == 2

\* documents loaded one after the other into one instance: versions of the
\* order service that declare different operations and elements
ReloadElementLists ==
    {<<>>,
     <<ElementNode("CreateOrderRequest", "sequence",
                   <<ItemNode("customerId", NoAttr, NoAttr)>>)>>,
     <<ElementNode("CreateOrderRequest", "sequence",
                   <<ItemNode("shippingAddress", "xs:string", "0")>>),
       ElementNode("GetOrderStatusResponse", "sequence",
                   <<ItemNode("customerId", "xs:string", "1")>>)>>}

ReloadSources ==
    {WsdlSource("malformed", <<>>, "absent", <<>>)}
    \cup {WsdlSource("ok", es, "none", <<>>) : es \in ReloadElementLists}
    \cup {WsdlSource("ok", es, "ops", ops) :
            es \in ReloadElementLists,
            ops \in {<<OpNode("CreateOrder", ActionOf("CreateOrder"))>>,
                     <<OpNode("GetOrderStatus", Undefined)>>,
                     <<OpNode("CreateOrder", ""),
                       OpNode("GetOrderStatus", ActionOf("GetOrderStatus"))>>}}

\* A SOAP message as xmlParser sees it:
\*   malformed  the parser throws;  noenvelope  no Envelope root;
\*   nobody     an Envelope without Body;  emptybody  <Body/> (parsed as "");
\*   body       a Body holding one element `wrapper` with or without
\*              attributes and with the given child element names
SoapXml(k, w, a, cs) == [kind |-> k, wrapper |-> w, attrs |-> a, children |-> cs]

SubSeq1(s, keep) == SelectSeq(s, LAMBDA x : x \in keep)

ChildSeqs ==
    {SubSeq1(ChildOrder, keep) :
        keep \in {k \in SUBSET {ChildOrder[i] : i \in 1..Len(ChildOrder)} :
                    Cardinality(k) <= MaxChildren}}

WrapperNames == {"CreateOrderRequest", "CreateOrderResponse"}

SoapXmls ==
    {SoapXml(k, NoAttr, FALSE, <<>>) :
        k \in {"malformed", "noenvelope", "nobody", "emptybody"}}
    \cup {SoapXml("body", w, FALSE, cs) : w \in WrapperNames, cs \in ChildSeqs}
    \cup {SoapXml("body", w, TRUE, <<>>) : w \in WrapperNames}

\* ---- WsdlValidator: methods --------------------------------------------------
WsdlElement(n, t, r) == [name |-> n, type |-> t, required |-> r]

\* mutant: a field is required only when minOccurs says "1"
getElementFields_DefaultOptional(rawElements, elementName) ==
    IF ~MapHas(rawElements, elementName) THEN <<>>
    ELSE LET element == MapGet(rawElements, elementName)
         IN  IF element.shape = "none" \/ element.items = <<>> THEN <<>>
             ELSE LET named == SelectSeq(element.items, LAMBDA it : it.name # NoAttr)
                  IN  [i \in 1..Len(named) |->
                        WsdlElement(named[i].name,
                                    IF named[i].type # NoAttr THEN named[i].type
                                                              ELSE "complex",
                                    named[i].minOccurs = "1")]

getElementFields(rawElements, elementName) ==
    IF ~MapHas(rawElements, elementName) THEN <<>>
    ELSE LET element == MapGet(rawElements, elementName)
         IN  IF element.shape = "none" \/ element.items = <<>> THEN <<>>
             ELSE LET named == SelectSeq(element.items, LAMBDA it : it.name # NoAttr)
                  IN  [i \in 1..Len(named) |->
                        WsdlElement(named[i].name,
                                    IF named[i].type # NoAttr THEN named[i].type
                                                              ELSE "complex",
                                    named[i].minOccurs # "0")]

RECURSIVE extractElementsLoop(_, _)
extractElementsLoop(rawElements, elements) ==
    IF elements = <<>> THEN rawElements
    ELSE extractElementsLoop(
            IF Head(elements).name # NoAttr
            THEN MapSet(rawElements, Head(elements).name, Head(elements))
            ELSE rawElements,
            Tail(elements))

extractElements(rawElements, parsed) ==
    IF parsed.kind # "ok" THEN rawElements
    ELSE extractElementsLoop(rawElements, parsed.elements)

WsdlOperation(n, a, in, out) ==
    [name |-> n, soapAction |-> a, input |-> in, output |-> out]

\* `value || ""`
OrEmpty(value) == IF value = Undefined THEN "" ELSE value

RECURSIVE extractOperationsLoop(_, _, _)
extractOperationsLoop(operations, rawElements, ops) ==
    IF ops = <<>> THEN operations
    ELSE LET name == Head(ops).name
         IN  extractOperationsLoop(
                MapSet(operations, name,
                       WsdlOperation(name, OrEmpty(Head(ops).soapAction),
                                     getElementFields(rawElements, name \o "Request"),
                                     getElementFields(rawElements, name \o "Response"))),
                rawElements, Tail(ops))

extractOperations(operations, rawElements, parsed) ==
    IF parsed.kind # "ok" \/ parsed.binding = "absent" THEN Returned(operations)
    ELSE IF parsed.binding = "none"
         \* [binding.operation] is [undefined]; op["@_name"] throws
         THEN Thrown("Cannot read properties of undefined (reading '@_name')")
         ELSE Returned(extractOperationsLoop(operations, rawElements, parsed.ops))

\* mutant: a load starts from empty maps
loadWsdl_Clears(operations, rawElements, parsed) ==
    IF parsed.kind = "malformed"
    THEN [threw |-> TRUE, operations |-> operations, rawElements |-> rawElements]
    ELSE LET raw == extractElements(<<>>, parsed)
             ops == extractOperations(<<>>, raw, parsed)
         IN  [threw |-> ops.threw,
              operations |-> IF ops.threw THEN operations ELSE ops.value,
              rawElements |-> raw]

\* loadWsdl: [threw, operations, rawElements] after the call
loadWsdl(operations, rawElements, parsed) ==
    IF parsed.kind = "malformed"
    THEN [threw |-> TRUE, operations |-> operations, rawElements |-> rawElements]
    ELSE LET raw == extractElements(rawElements, parsed)
             ops == extractOperations(operations, raw, parsed)
         IN  [threw |-> ops.threw,
              operations |-> IF ops.threw THEN operations ELSE ops.value,
              rawElements |-> raw]

getOperations(operations) == MapValues(operations)

WsdlValidationResult(v, missing, unexpected, op) ==
    [threw |-> FALSE, valid |-> v, missingElements |-> missing,
     unexpectedElements |-> unexpected, operation |-> op]

NoValidation == WsdlValidationResult(FALSE, <<>>, <<>>, "")
ValidationThrew == [NoValidation EXCEPT !.threw = TRUE]

\* Object.keys(responseBody): the attributes first, then the child names
ActualKeys(xml) ==
    (IF xml.attrs THEN <<"@_xmlns">> ELSE <<>>) \o xml.children

\* body[responseName] is there and truthy
WrapperFound(xml, responseName) ==
    /\ xml.wrapper = responseName
    /\ (xml.attrs \/ xml.children # <<>>)

IsAttrKey(k) == k = "@_xmlns"

\* mutant: the required flag is not looked at
missingOf_IgnoresRequired(expectedFields, actualKeys) ==
    LET missing == SelectSeq(expectedFields, LAMBDA f : ~Includes(actualKeys, f.name))
    IN  [i \in 1..Len(missing) |-> missing[i].name]

\* the loop over expectedFields that fills missingElements
missingOf(expectedFields, actualKeys) ==
    LET missing == SelectSeq(expectedFields,
                        LAMBDA f : f.required /\ ~Includes(actualKeys, f.name))
    IN  [i \in 1..Len(missing) |-> missing[i].name]

\* validateSoapBody once the operation has been found
validateKnown(operation, xml, operationName, direction) ==
    LET expectedFields == IF direction = "input" THEN operation.input
                                                 ELSE operation.output
        responseName == IF direction = "input"
                        THEN operationName \o "Request"
                        ELSE operationName \o "Response"
    IN  IF xml.kind = "malformed" THEN ValidationThrew
        ELSE IF xml.kind # "body"
        THEN WsdlValidationResult(FALSE, <<"SOAP Body not found">>, <<>>,
                                  operationName)
        ELSE IF ~WrapperFound(xml, responseName)
        THEN WsdlValidationResult(FALSE,
                <<responseName \o " element not found in SOAP Body">>, <<>>,
                operationName)
        ELSE LET actualKeys == ActualKeys(xml)
                 missingElements == missingOf(expectedFields, actualKeys)
                 expectedNames == [i \in 1..Len(expectedFields) |->
                                       expectedFields[i].name]
                 unexpectedElements ==
                     SelectSeq(actualKeys,
                         LAMBDA k : ~Includes(expectedNames, k) /\ ~IsAttrKey(k))
             IN  WsdlValidationResult(Len(missingElements) = 0, missingElements,
                                      unexpectedElements, operationName)

\* mutant: the envelope is parsed before the operation is looked up
validateSoapBody_ParseFirst(operations, xml, operationName, direction) ==
    IF xml.kind = "malformed" THEN ValidationThrew
    ELSE IF ~MapHas(operations, operationName)
    THEN WsdlValidationResult(FALSE,
            <<"Operation not found: " \o operationName>>, <<>>, operationName)
    ELSE validateKnown(MapGet(operations, operationName), xml, operationName,
                       direction)

validateSoapBody(operations, xml, operationName, direction) ==
    IF ~MapHas(operations, operationName)
    THEN WsdlValidationResult(FALSE,
            <<"Operation not found: " \o operationName>>, <<>>, operationName)
    ELSE validateKnown(MapGet(operations, operationName), xml, operationName,
                       direction)

\* mutant: a call drops the model
operationsAfterCall_Cleared(operations) == <<>>

\* the operations map once validateSoapBody / getOperations has returned
operationsAfterCall(operations) == operations

\* ---- SchemaValidator -------------------------------------------------------
\* loadSchema calls on one instance in a run
MaxLoads == 2

SchemaIds == {"order-created-event", "order-updated-event"}
DollarId == "https://example.com/schemas/order-created-event"
\* path.resolve(schemaPath)
SchemaPaths == {"/schemas/messages/order-created-event.schema.json"}

\* a schema file: unreadable, not JSON, or a schema object with its $id
\* (NoAttr when absent) and its required array
SchemaFile(k, id, req) == [kind |-> k, id |-> id, required |-> req]

SchemaFiles ==
    {SchemaFile(k, NoAttr, <<>>) : k \in {"unreadable", "malformed"}}
    \cup {SchemaFile("schema", id, req) :
            id \in {NoAttr, DollarId}, req \in SeqsUpTo(FieldNames, MaxFields)}

\* the payloads, by the properties they hold
Payloads == SUBSET FieldNames

\* ErrorObject[] | null
ErrorsNull == [isNull |-> TRUE, list |-> <<>>]
ErrorList(l) == [isNull |-> FALSE, list |-> l]
ErrorObject(path, msg) == [instancePath |-> path, message |-> msg]

\* the meta-schema asks for uniqueItems in required
ValidSchema(schema) ==
    \A i, j \in 1..Len(schema.required) :
        schema.required[i] = schema.required[j] => i = j

\* ajv.compile(schemaContent): the ValidateFunction, by the schema it checks
ValidateFunction(schema) == [required |-> schema.required]

\* validate(payload) of a compiled schema with allErrors: the boolean it
\* returns and validate.errors afterwards
RunValidate(validate, payload) ==
    LET missing == SelectSeq(validate.required, LAMBDA f : f \notin payload)
        errors == [i \in 1..Len(missing) |->
            ErrorObject("", "must have required property '" \o missing[i] \o "'")]
    IN  [valid |-> missing = <<>>,
         errors |-> IF missing = <<>> THEN ErrorsNull ELSE ErrorList(errors)]

\* Array.prototype.join
RECURSIVE Join(_, _)
Join(s, sep) ==
    IF s = <<>> THEN ""
    ELSE IF Len(s) = 1 THEN s[1]
    ELSE s[1] \o sep \o Join(Tail(s), sep)

\* what a SchemaValidator method hands back or throws
SchemaOutcome(threw, msg, valid, errors, id) ==
    [threw |-> threw, message |-> msg, valid |-> valid, errors |-> errors,
     schemaId |-> id]
NoOutcome == SchemaOutcome(FALSE, "", FALSE, ErrorsNull, "")
SchemaThrew(msg) == SchemaOutcome(TRUE, msg, FALSE, ErrorsNull, "")
\* a method of return type void returned
SchemaDone == SchemaOutcome(FALSE, "", FALSE, ErrorsNull, "")

\* schemaId || schemaContent.$id || absolutePath
ChooseId(schemaId, schemaContent, absolutePath) ==
    IF schemaId # Undefined /\ schemaId # "" THEN schemaId
    ELSE IF schemaContent.id # NoAttr THEN schemaContent.id
    ELSE absolutePath

\* mutant: the id is registered before the schema is compiled
loadSchema_SetBeforeCompile(validators, ajvRefs, absolutePath, file, schemaId) ==
    IF file.kind = "unreadable"
    THEN [validators |-> validators, ajvRefs |-> ajvRefs,
          outcome |-> SchemaThrew("ENOENT: no such file or directory")]
    ELSE IF file.kind = "malformed"
    THEN [validators |-> validators, ajvRefs |-> ajvRefs,
          outcome |-> SchemaThrew("Unexpected token in JSON")]
    ELSE LET registry == MapSet(validators,
                                ChooseId(schemaId, file, absolutePath),
                                ValidateFunction(file))
             refs == IF file.id # NoAttr THEN ajvRefs \cup {file.id} ELSE ajvRefs
         IN  IF file.id # NoAttr /\ file.id \in ajvRefs
             THEN [validators |-> registry, ajvRefs |-> ajvRefs,
                   outcome |-> SchemaThrew("schema with key or id already exists")]
             ELSE IF ~ValidSchema(file)
             THEN [validators |-> registry, ajvRefs |-> refs,
                   outcome |-> SchemaThrew("schema is invalid")]
             ELSE [validators |-> registry, ajvRefs |-> refs,
                   outcome |-> SchemaDone]

\* loadSchema: the registry, the ids the Ajv instance holds, and the outcome
loadSchema(validators, ajvRefs, absolutePath, file, schemaId) ==
    IF file.kind = "unreadable"
    THEN [validators |-> validators, ajvRefs |-> ajvRefs,
          outcome |-> SchemaThrew("ENOENT: no such file or directory")]
    ELSE IF file.kind = "malformed"
    THEN [validators |-> validators, ajvRefs |-> ajvRefs,
          outcome |-> SchemaThrew("Unexpected token in JSON")]
    ELSE IF file.id # NoAttr /\ file.id \in ajvRefs
    THEN [validators |-> validators, ajvRefs |-> ajvRefs,
          outcome |-> SchemaThrew("schema with key or id already exists")]
    ELSE LET refs == IF file.id # NoAttr THEN ajvRefs \cup {file.id} ELSE ajvRefs
         IN  IF ~ValidSchema(file)
             THEN [validators |-> validators, ajvRefs |-> refs,
                   outcome |-> SchemaThrew("schema is invalid")]
             ELSE [validators |->
                       MapSet(validators, ChooseId(schemaId, file, absolutePath),
                              ValidateFunction(file)),
                   ajvRefs |-> refs,
                   outcome |-> SchemaDone]

\* a directory entry: the file name as stem and suffix, and what the file holds
DirEntry(stem, suffix, file) == [stem |-> stem, suffix |-> suffix, file |-> file]
FileNameOf(e) == e.stem \o e.suffix

DirNames ==
    {<<"order-created-event", ".schema.json">>,
     <<"order-updated-event", ".schema.json">>,
     <<"", ".schema.json">>,
     <<"README", ".md">>}

\* what the files of schemas/messages hold
DefaultFiles ==
    {SchemaFile("malformed", NoAttr, <<>>),
     SchemaFile("schema", NoAttr, <<>>),
     SchemaFile("schema", DollarId, <<"eventId">>)}

DirEntries == {DirEntry(n[1], n[2], f) : n \in DirNames, f \in DefaultFiles}

\* fs.readdirSync(absoluteDir): the entries, no file name twice; "missing"
\* when the directory does not exist
Listing(k, es) == [kind |-> k, entries |-> es]
NoListing == Listing("none", <<>>)
Directories(n) ==
    {Listing("missing", <<>>)}
    \cup {Listing("dir", es) : es \in
            {s \in SeqsUpTo(DirEntries, n) :
                \A i, j \in 1..Len(s) :
                    FileNameOf(s[i]) = FileNameOf(s[j]) => i = j}}

\* f.endsWith(".json")
EndsWithJson(e) == e.suffix \in {".schema.json", ".json"}

\* file.replace(".schema.json", "")
IdFromFileName(e) == IF e.suffix = ".schema.json" THEN e.stem ELSE FileNameOf(e)

\* path.join(absoluteDir, file)
PathOf(e) == "/schemas/messages/" \o FileNameOf(e)

\* the for loop of loadAllMessageSchemas; a loadSchema that throws ends it
RECURSIVE loadAllLoop(_, _, _, _)
loadAllLoop(validators, ajvRefs, files, calls) ==
    IF files = <<>>
    THEN [validators |-> validators, ajvRefs |-> ajvRefs,
          outcome |-> SchemaDone, calls |-> calls]
    ELSE LET file == Head(files)
             schemaId == IdFromFileName(file)
             r == loadSchema(validators, ajvRefs, PathOf(file), file.file, schemaId)
         IN  IF r.outcome.threw
             THEN [validators |-> r.validators, ajvRefs |-> r.ajvRefs,
                   outcome |-> r.outcome, calls |-> calls + 1]
             ELSE loadAllLoop(r.validators, r.ajvRefs, Tail(files), calls + 1)

loadAllMessageSchemas(validators, ajvRefs, listing) ==
    IF listing.kind = "missing"
    THEN [validators |-> validators, ajvRefs |-> ajvRefs,
          outcome |-> SchemaThrew("ENOENT: no such file or directory, scandir"),
          calls |-> 0]
    ELSE loadAllLoop(validators, ajvRefs,
                     SelectSeq(listing.entries, EndsWithJson), 0)

\* validate.errors ?? null
OrNull(errors) == errors

\* mutant: the error list of the run is handed back also when valid
validate_ErrorsAlways(validators, schemaId, payload) ==
    IF ~MapHas(validators, schemaId)
    THEN SchemaThrew("Schema not loaded: " \o schemaId \o ". Available: "
                        \o Join(MapKeys(validators), ", "))
    ELSE LET run == RunValidate(MapGet(validators, schemaId), payload)
         IN  SchemaOutcome(FALSE, "", run.valid, ErrorList(run.errors.list),
                           schemaId)

validate(validators, schemaId, payload) ==
    IF ~MapHas(validators, schemaId)
    THEN SchemaThrew("Schema not loaded: " \o schemaId \o ". Available: "
                        \o Join(MapKeys(validators), ", "))
    ELSE LET run == RunValidate(MapGet(validators, schemaId), payload)
         IN  SchemaOutcome(FALSE, "", run.valid,
                           IF run.valid THEN ErrorsNull ELSE OrNull(run.errors),
                           schemaId)

\* mutant: a validation drops the registry
validatorsAfterValidate_Cleared(validators) == <<>>

\* the registry once validate has returned or thrown
validatorsAfterValidate(validators) == validators

\* result.errors?.map((e) => `${e.instancePath} ${e.message}`).join("; ")
ErrorMessages(errors) ==
    IF errors.isNull THEN "undefined"
    ELSE Join([i \in 1..Len(errors.list) |->
                  errors.list[i].instancePath \o " " \o errors.list[i].message],
              "; ")

\* mutant: the result of validate is not looked at
assertValid_NoThrow(validators, schemaId, payload) ==
    LET result == validate(validators, schemaId, payload)
    IN  IF result.threw THEN result ELSE SchemaDone

assertValid(validators, schemaId, payload) ==
    LET result == validate(validators, schemaId, payload)
    IN  IF result.threw THEN result
        ELSE IF ~result.valid
        THEN SchemaThrew("Schema validation failed for " \o schemaId \o ": "
                            \o ErrorMessages(result.errors))
        ELSE SchemaDone

\* ---- State ------------------------------------------------------------------
VARIABLES
    pc,                   \* where main (and the check it awaits) stands
    wsdlFile,             \* schemas/wsdl/order-service.wsdl exists
    app2Url,              \* APP2_STAGING_URL is set
    msgFile,              \* schemas/messages/order-created-event.schema.json exists
    integrationLayerUrl,  \* INTEGRATION_LAYER_URL is set
    results,              \* main's results array
    result,               \* the result object of the check in progress
    outcome,              \* how the fetch of the check in progress settled
    localParsed,          \* checkWsdlDrift: localParsed
    liveParsed,           \* checkWsdlDrift: liveParsed
    localSchema,          \* checkMessageSchemaDrift: localSchema
    liveSchema,           \* checkMessageSchemaDrift: liveSchema
    fetched,              \* the URLs fetch() was called with
    filesRead,            \* the files readFileSync was called with
    reports,              \* the report files written under reports/drift
    exitCode,             \* the exit code of the process
    msgPc,                \* where checkMessageSchemaDrift stands when it is
                          \* started without awaiting checkWsdlDrift
    msgResult,            \* its result object
    msgOutcome,           \* how its fetch settled
    operations,           \* WsdlValidator.operations
    rawElements,          \* WsdlValidator.rawElements
    lastLoad,             \* how the loadWsdl call on the instance ended
    source,               \* the document the loadWsdl call read
    call,                 \* the last method call on the WsdlValidator
    validation,           \* what the last validateSoapBody returned
    listed,               \* what the last getOperations returned
    wsdlLoads,            \* the loadWsdl calls made on the instance
    validators,           \* SchemaValidator.validators
    ajvRefs,              \* the schema ids the Ajv instance holds
    loads,                \* the loadSchema calls made on the instance
    schemaCall,           \* the last method call on the SchemaValidator
    schemaResult,         \* what that call returned or threw
    remembered,           \* a validate call made earlier, with its result
    schemaFile,           \* the document the last loadSchema call read
    directory,            \* what readdirSync returned to loadAllMessageSchemas
    defaultValidator,     \* the module's defaultValidator: null or the instance
    defaultLoads          \* the loadAllMessageSchemas calls getSchemaValidator made

vars == <<pc, wsdlFile, app2Url, msgFile, integrationLayerUrl, results, result,
          outcome, localParsed, liveParsed, localSchema, liveSchema,
          fetched, filesRead, reports, exitCode, msgPc, msgResult, msgOutcome,
          operations, rawElements, lastLoad, source, call, validation, listed,
          wsdlLoads,
          validators, ajvRefs, loads, schemaCall, schemaResult, remembered,
          schemaFile, directory, defaultValidator, defaultLoads>>

driftVars == <<pc, wsdlFile, app2Url, msgFile, integrationLayerUrl, results, result,
               outcome, localParsed, liveParsed, localSchema, liveSchema,
               fetched, filesRead, reports, exitCode, msgPc, msgResult, msgOutcome>>

parallelVars == <<msgPc, msgResult, msgOutcome>>

\* checkMessageSchemaDrift is not running beside checkWsdlDrift
ParallelOff ==
    /\ msgPc = "none"
    /\ msgResult = NoResult
    /\ msgOutcome = "none"

validatorVars == <<operations, rawElements, lastLoad, source, call, validation, listed,
                   wsdlLoads>>

NoSource == [kind |-> "none", elements |-> <<>>, binding |-> "absent", ops |-> <<>>]
NoXml == [kind |-> "none", wrapper |-> NoAttr, attrs |-> FALSE, children |-> <<>>]

Call(m, xml, op, dir) ==
    [method |-> m, xml |-> xml, operationName |-> op, direction |-> dir]
NoCall == Call("none", NoXml, "", "")

registryVars == <<validators, ajvRefs, loads, schemaCall, schemaResult, remembered,
                  schemaFile, directory, defaultValidator, defaultLoads>>

\* what the module of the SchemaValidator holds
singletonVars == <<defaultValidator, defaultLoads>>

SchemaCall(m, path, id, payload) ==
    [method |-> m, path |-> path, schemaId |-> id, payload |-> payload]
NoSchemaCall == SchemaCall("none", "", "", {})

\* an earlier validate call: its inputs, its result, the loads made before it
Memo(set, c, r, n, later) ==
    [set |-> set, call |-> c, result |-> r, loads |-> n, later |-> later]
NoMemo == Memo(FALSE, NoSchemaCall, NoOutcome, 0, FALSE)
\* one more call was made after the kept one
AfterCall(memo) == IF memo.set THEN [memo EXCEPT !.later = TRUE] ELSE memo

NoFile == SchemaFile("none", NoAttr, <<>>)

\* new SchemaValidator()
RegistryNew ==
    /\ validators = <<>>
    /\ ajvRefs = {}
    /\ loads = 0
    /\ schemaCall = NoSchemaCall
    /\ schemaResult = NoOutcome
    /\ remembered = NoMemo
    /\ schemaFile = NoFile
    /\ directory = NoListing
    /\ defaultValidator = "null"
    /\ defaultLoads = 0

\* a new WsdlValidator on which nothing was called
ValidatorNew ==
    /\ operations = <<>>
    /\ rawElements = <<>>
    /\ lastLoad = "none"
    /\ source = NoSource
    /\ call = NoCall
    /\ validation = NoValidation
    /\ listed = <<>>
    /\ wsdlLoads = 0

env == <<wsdlFile, app2Url, msgFile, integrationLayerUrl>>

WsdlUrl == "APP2_STAGING_URL/ws/orders?wsdl"
MsgUrl == "INTEGRATION_LAYER_URL/api/schemas/order-events"
WsdlPath == "schemas/wsdl/order-service.wsdl"
MsgPath == "schemas/messages/order-created-event.schema.json"

Outcomes == {"reject", "notok", "ok"}

Init ==
    /\ pc = "start"
    /\ wsdlFile \in BOOLEAN
    /\ app2Url \in BOOLEAN
    /\ msgFile \in BOOLEAN
    /\ integrationLayerUrl \in BOOLEAN
    /\ results = <<>>
    /\ result = NoResult
    /\ outcome = "none"
    /\ localParsed = NoDoc
    /\ liveParsed = NoDoc
    /\ localSchema = NoJson
    /\ liveSchema = NoJson
    /\ fetched = {}
    /\ filesRead = {}
    /\ reports = <<>>
    /\ exitCode = 0
    /\ ParallelOff
    /\ ValidatorNew
    /\ RegistryNew

\* main up to its first await: checkWsdlDrift runs to its fetch or returns
MainStart ==
    /\ pc = "start"
    /\ LET e == checkWsdlDriftEntry(wsdlFile, app2Url)
       IN  /\ result' = e.result
           /\ fetched' = IF e.fetch THEN fetched \cup {WsdlUrl} ELSE fetched
           /\ pc' = IF e.fetch THEN "wsdl_fetch" ELSE "wsdl_return"
    /\ UNCHANGED <<env, results, outcome, localParsed, liveParsed, localSchema,
                   liveSchema, filesRead, reports, exitCode>>
    /\ UNCHANGED <<validatorVars, registryVars, parallelVars>>

\* the live WSDL fetch settles; checkWsdlDrift runs to its return
WsdlFetchSettles ==
    /\ pc = "wsdl_fetch"
    /\ \E o \in Outcomes :
        /\ outcome' = o
        /\ IF o = "ok"
           THEN /\ localParsed' \in WsdlDocs
                /\ liveParsed' \in WsdlDocs
                /\ filesRead' = filesRead \cup {WsdlPath}
           ELSE UNCHANGED <<localParsed, liveParsed, filesRead>>
        /\ result' = checkWsdlDriftResume(result, o, localParsed', liveParsed')
    /\ pc' = "wsdl_return"
    /\ UNCHANGED <<env, results, localSchema, liveSchema, fetched, reports, exitCode>>
    /\ UNCHANGED <<validatorVars, registryVars, parallelVars>>

\* main resumes with the WSDL result, pushes it and calls
\* checkMessageSchemaDrift, which runs to its fetch or returns
MainAfterWsdl ==
    /\ pc = "wsdl_return"
    /\ results' = Append(results, result)
    /\ outcome' = "none"
    /\ localParsed' = NoDoc
    /\ liveParsed' = NoDoc
    /\ IF AfterWsdlCheck(result) = "msg"
       THEN LET e == checkMessageSchemaDriftEntry(integrationLayerUrl)
            IN  /\ result' = e.result
                /\ fetched' = IF e.fetch THEN fetched \cup {MsgUrl} ELSE fetched
                /\ pc' = IF e.fetch THEN "msg_fetch" ELSE "msg_return"
       ELSE /\ result' = NoResult
            /\ pc' = "report"
            /\ UNCHANGED fetched
    /\ UNCHANGED <<env, localSchema, liveSchema, filesRead, reports, exitCode>>
    /\ UNCHANGED <<validatorVars, registryVars, parallelVars>>

\* the live schema fetch settles; checkMessageSchemaDrift runs to its return
MsgFetchSettles ==
    /\ pc = "msg_fetch"
    /\ \E o \in Outcomes :
        /\ outcome' = o
        /\ IF o = "ok" THEN liveSchema' \in JsonDocs ELSE UNCHANGED liveSchema
        /\ IF MsgReadsLocal(o, liveSchema')
           THEN /\ filesRead' = filesRead \cup {MsgPath}
                /\ IF msgFile THEN localSchema' \in JsonDocs
                              ELSE UNCHANGED localSchema
           ELSE UNCHANGED <<filesRead, localSchema>>
        /\ result' = checkMessageSchemaDriftResume(result, o, msgFile,
                                                   localSchema', liveSchema')
    /\ pc' = "msg_return"
    /\ UNCHANGED <<env, results, localParsed, liveParsed, fetched, reports, exitCode>>
    /\ UNCHANGED <<validatorVars, registryVars, parallelVars>>

\* main resumes with the message-schema result and pushes it
MainAfterMsg ==
    /\ pc = "msg_return"
    /\ results' = Append(results, result)
    /\ result' = NoResult
    /\ outcome' = "none"
    /\ localSchema' = NoJson
    /\ liveSchema' = NoJson
    /\ pc' = "report"
    /\ UNCHANGED <<env, localParsed, liveParsed, fetched, filesRead, reports, exitCode>>
    /\ UNCHANGED <<validatorVars, registryVars, parallelVars>>

\* generateReport(results): writes the report file, or mkdirSync /
\* writeFileSync throws and main's promise rejects
GenerateReport ==
    /\ pc = "report"
    /\ \E writeOk \in BOOLEAN :
        IF writeOk
        THEN /\ reports' = Append(reports, MakeReport(results))
             /\ pc' = "decide"
        ELSE /\ pc' = "rejected"
             /\ UNCHANGED reports
    /\ UNCHANGED <<env, results, result, outcome, localParsed, liveParsed,
                   localSchema, liveSchema, fetched, filesRead, exitCode>>
    /\ UNCHANGED <<validatorVars, registryVars, parallelVars>>

\* main after generateReport: process.exit(1) on drift, else a normal end
DecideExit ==
    /\ pc = "decide"
    /\ exitCode' = IF hasDrift(results) THEN 1 ELSE 0
    /\ pc' = "done"
    /\ UNCHANGED <<env, results, result, outcome, localParsed, liveParsed,
                   localSchema, liveSchema, fetched, filesRead, reports>>
    /\ UNCHANGED <<validatorVars, registryVars, parallelVars>>

\* main().catch: "Fatal error", process.exit(1)
MainCatch ==
    /\ pc = "rejected"
    /\ exitCode' = 1
    /\ pc' = "done"
    /\ UNCHANGED <<env, results, result, outcome, localParsed, liveParsed,
                   localSchema, liveSchema, fetched, filesRead, reports>>
    /\ UNCHANGED <<validatorVars, registryVars, parallelVars>>

Next ==
    \/ MainStart
    \/ WsdlFetchSettles
    \/ MainAfterWsdl
    \/ MsgFetchSettles
    \/ MainAfterMsg
    \/ GenerateReport
    \/ DecideExit
    \/ MainCatch

Spec == Init /\ [][Next]_vars

\* the two checks called one after the other without awaiting the first:
\* both are about to start
ParallelInit ==
    /\ pc = "start"
    /\ wsdlFile \in BOOLEAN
    /\ app2Url \in BOOLEAN
    /\ msgFile \in BOOLEAN
    /\ integrationLayerUrl \in BOOLEAN
    /\ results = <<>>
    /\ result = NoResult
    /\ outcome = "none"
    /\ localParsed = NoDoc
    /\ liveParsed = NoDoc
    /\ localSchema = NoJson
    /\ liveSchema = NoJson
    /\ fetched = {}
    /\ filesRead = {}
    /\ reports = <<>>
    /\ exitCode = 0
    /\ msgPc = "start"
    /\ msgResult = NoResult
    /\ msgOutcome = "none"
    /\ ValidatorNew
    /\ RegistryNew

\* checkMessageSchemaDrift runs to its fetch or returns
MsgCheckStart ==
    /\ msgPc = "start"
    /\ LET e == checkMessageSchemaDriftEntry(integrationLayerUrl)
       IN  /\ msgResult' = e.result
           /\ fetched' = IF e.fetch THEN fetched \cup {MsgUrl} ELSE fetched
           /\ msgPc' = IF e.fetch THEN "fetch" ELSE "return"
    /\ UNCHANGED <<env, pc, results, result, outcome, localParsed, liveParsed,
                   localSchema, liveSchema, filesRead, reports, exitCode, msgOutcome>>
    /\ UNCHANGED <<validatorVars, registryVars>>

\* mutant: the continuation writes into the result object of the other check
MsgCheckSettles_SharedResult ==
    /\ msgPc = "fetch"
    /\ \E o \in Outcomes :
        /\ msgOutcome' = o
        /\ IF o = "ok" THEN liveSchema' \in JsonDocs ELSE UNCHANGED liveSchema
        /\ IF MsgReadsLocal(o, liveSchema')
           THEN /\ filesRead' = filesRead \cup {MsgPath}
                /\ IF msgFile THEN localSchema' \in JsonDocs
                              ELSE UNCHANGED localSchema
           ELSE UNCHANGED <<filesRead, localSchema>>
        /\ msgResult' = checkMessageSchemaDriftResume(
                            [result EXCEPT !.schema = MsgSchemaName], o, msgFile,
                            localSchema', liveSchema')
    /\ msgPc' = "return"
    /\ UNCHANGED <<env, pc, results, result, outcome, localParsed, liveParsed,
                   fetched, reports, exitCode>>
    /\ UNCHANGED <<validatorVars, registryVars>>

\* its fetch settles and it runs to its return
MsgCheckSettles ==
    /\ msgPc = "fetch"
    /\ \E o \in Outcomes :
        /\ msgOutcome' = o
        /\ IF o = "ok" THEN liveSchema' \in JsonDocs ELSE UNCHANGED liveSchema
        /\ IF MsgReadsLocal(o, liveSchema')
           THEN /\ filesRead' = filesRead \cup {MsgPath}
                /\ IF msgFile THEN localSchema' \in JsonDocs
                              ELSE UNCHANGED localSchema
           ELSE UNCHANGED <<filesRead, localSchema>>
        /\ msgResult' = checkMessageSchemaDriftResume(msgResult, o, msgFile,
                                                      localSchema', liveSchema')
    /\ msgPc' = "return"
    /\ UNCHANGED <<env, pc, results, result, outcome, localParsed, liveParsed,
                   fetched, reports, exitCode>>
    /\ UNCHANGED <<validatorVars, registryVars>>

ParallelNext ==
    \/ MainStart
    \/ WsdlFetchSettles
    \/ MsgCheckStart
    \/ MsgCheckSettles

\* the steps of the two checks in any interleaving
ParallelSpec == ParallelInit /\ [][ParallelNext]_vars

\* every fetch settles and every resumed continuation runs
FairSpec == Spec /\ WF_vars(Next)

\* ---- WsdlValidator: calls ----------------------------------------------------
\* the drift run is not part of a WsdlValidator scenario
DriftIdle ==
    /\ pc = "idle"
    /\ wsdlFile = FALSE
    /\ app2Url = FALSE
    /\ msgFile = FALSE
    /\ integrationLayerUrl = FALSE
    /\ results = <<>>
    /\ result = NoResult
    /\ outcome = "none"
    /\ localParsed = NoDoc
    /\ liveParsed = NoDoc
    /\ localSchema = NoJson
    /\ liveSchema = NoJson
    /\ fetched = {}
    /\ filesRead = {}
    /\ reports = <<>>
    /\ exitCode = 0
    /\ ParallelOff

WsdlInit == DriftIdle /\ ValidatorNew /\ RegistryNew

CalledOperationNames == OpNames
Directions == {"input", "output"}

\* wsdlValidator.loadWsdl(path), the file holding one of `sources`
LoadWsdlFrom(sources) ==
    /\ pc = "idle"
    /\ lastLoad = "none"
    /\ \E src \in sources :
        LET r == loadWsdl(operations, rawElements, src)
        IN  /\ operations' = r.operations
            /\ rawElements' = r.rawElements
            /\ lastLoad' = IF r.threw THEN "threw" ELSE "returned"
            /\ source' = src
    /\ call' = Call("loadWsdl", NoXml, "", "")
    /\ validation' = NoValidation
    /\ listed' = <<>>
    /\ wsdlLoads' = wsdlLoads + 1
    /\ UNCHANGED <<driftVars, registryVars>>

LoadWsdl == LoadWsdlFrom(WsdlSources)

LoadService == LoadWsdlFrom(ServiceSources)

\* wsdlValidator.getOperations()
GetOperations ==
    /\ pc = "idle"
    /\ listed' = getOperations(operations)
    /\ operations' = operationsAfterCall(operations)
    /\ call' = Call("getOperations", NoXml, "", "")
    /\ validation' = NoValidation
    /\ UNCHANGED <<driftVars, registryVars, rawElements, lastLoad, source, wsdlLoads>>

\* wsdlValidator.validateSoapBody(xml, operationName, direction)
ValidateSoapBody ==
    /\ pc = "idle"
    /\ \E xml \in SoapXmls, operationName \in CalledOperationNames,
          direction \in Directions :
        /\ validation' = validateSoapBody(operations, xml, operationName, direction)
        /\ call' = Call("validateSoapBody", xml, operationName, direction)
    /\ operations' = operationsAfterCall(operations)
    /\ listed' = <<>>
    /\ UNCHANGED <<driftVars, registryVars, rawElements, lastLoad, source, wsdlLoads>>

\* wsdlValidator.loadWsdl(path) on an instance that may hold earlier loads
ReloadWsdl ==
    /\ pc = "idle"
    /\ wsdlLoads < MaxWsdlLoads
    /\ \E src \in ReloadSources :
        LET r == loadWsdl(operations, rawElements, src)
        IN  /\ operations' = r.operations
            /\ rawElements' = r.rawElements
            /\ lastLoad' = IF r.threw THEN "threw" ELSE "returned"
            /\ source' = src
    /\ call' = Call("loadWsdl", NoXml, "", "")
    /\ validation' = NoValidation
    /\ listed' = <<>>
    /\ wsdlLoads' = wsdlLoads + 1
    /\ UNCHANGED <<driftVars, registryVars>>

ReloadNext ==
    \/ ReloadWsdl
    \/ GetOperations

\* several loads into one instance, and inspection
ReloadSpec == WsdlInit /\ [][ReloadNext]_vars

LoadNext ==
    \/ LoadWsdl
    \/ GetOperations

\* one load of any document, then inspection
LoadSpec == WsdlInit /\ [][LoadNext]_vars

ValidateNext ==
    \/ LoadService
    \/ GetOperations
    \/ ValidateSoapBody

\* one load of an order-service document, then any calls
ValidateSpec == WsdlInit /\ [][ValidateNext]_vars

SchemaInit == DriftIdle /\ ValidatorNew /\ RegistryNew

\* the schemaId argument of loadSchema, Undefined when left out
LoadIds == SchemaIds \cup {Undefined}

\* the ids validate and assertValid are called with
CalledIds == SchemaIds \cup {DollarId}

\* validator.loadSchema(schemaPath, schemaId)
LoadSchemaFrom(files, ids) ==
    /\ pc = "idle"
    /\ loads < MaxLoads
    /\ \E path \in SchemaPaths, file \in files, schemaId \in ids :
        LET r == loadSchema(validators, ajvRefs, path, file, schemaId)
        IN  /\ validators' = r.validators
            /\ ajvRefs' = r.ajvRefs
            /\ schemaResult' = r.outcome
            /\ schemaCall' = SchemaCall("loadSchema", path, schemaId, {})
            /\ schemaFile' = file
    /\ loads' = loads + 1
    /\ UNCHANGED <<driftVars, validatorVars, remembered, directory, singletonVars>>

LoadSchema == LoadSchemaFrom(SchemaFiles, LoadIds)

\* the event schemas of the test suites, loaded under their file-name ids
EventSchemaFiles ==
    {SchemaFile("malformed", NoAttr, <<>>),
     SchemaFile("schema", NoAttr, <<>>),
     SchemaFile("schema", NoAttr, <<"eventId">>)}

LoadEventSchema == LoadSchemaFrom(EventSchemaFiles, SchemaIds)

\* validator.validate(schemaId, payload)
Validate ==
    /\ pc = "idle"
    /\ \E schemaId \in CalledIds, payload \in Payloads :
        /\ schemaResult' = validate(validators, schemaId, payload)
        /\ schemaCall' = SchemaCall("validate", "", schemaId, payload)
    /\ validators' = validatorsAfterValidate(validators)
    /\ remembered' = AfterCall(remembered)
    /\ UNCHANGED <<driftVars, validatorVars, ajvRefs, loads, schemaFile, directory,
                   singletonVars>>

\* validator.assertValid(schemaId, payload)
AssertValid ==
    /\ pc = "idle"
    /\ \E schemaId \in CalledIds, payload \in Payloads :
        /\ schemaResult' = assertValid(validators, schemaId, payload)
        /\ schemaCall' = SchemaCall("assertValid", "", schemaId, payload)
    /\ validators' = validatorsAfterValidate(validators)
    /\ remembered' = AfterCall(remembered)
    /\ UNCHANGED <<driftVars, validatorVars, ajvRefs, loads, schemaFile, directory,
                   singletonVars>>

\* a validate call whose inputs and result the caller keeps
ValidateAndKeep ==
    /\ pc = "idle"
    /\ ~remembered.set
    /\ \E schemaId \in CalledIds, payload \in Payloads :
        /\ schemaResult' = validate(validators, schemaId, payload)
        /\ schemaCall' = SchemaCall("validate", "", schemaId, payload)
        /\ remembered' = Memo(TRUE, schemaCall', schemaResult', loads, FALSE)
    /\ validators' = validatorsAfterValidate(validators)
    /\ UNCHANGED <<driftVars, validatorVars, ajvRefs, loads, schemaFile, directory,
                   singletonVars>>

\* validator.loadAllMessageSchemas()
LoadAllMessageSchemas ==
    /\ pc = "idle"
    /\ loads < MaxLoads
    /\ \E listing \in Directories(MaxLoads - loads) :
        LET r == loadAllMessageSchemas(validators, ajvRefs, listing)
        IN  /\ validators' = r.validators
            /\ ajvRefs' = r.ajvRefs
            /\ schemaResult' = r.outcome
            /\ loads' = loads + r.calls
            /\ directory' = listing
    /\ schemaCall' = SchemaCall("loadAllMessageSchemas", "", "", {})
    /\ UNCHANGED <<driftVars, validatorVars, remembered, schemaFile, singletonVars>>

\* a document of schemas/messages loaded by loadSchema, with or without id
LoadDocument == LoadSchemaFrom(DefaultFiles, LoadIds)

\* getSchemaValidator(): the first call makes the instance and loads the
\* default schemas into it; the instance is assigned before the load
GetSchemaValidator ==
    /\ pc = "idle"
    /\ IF defaultValidator = "null"
       THEN \E listing \in Directories(MaxLoads) :
              LET r == loadAllMessageSchemas(<<>>, {}, listing)
              IN  /\ validators' = r.validators
                  /\ ajvRefs' = r.ajvRefs
                  /\ schemaResult' = r.outcome
                  /\ loads' = r.calls
                  /\ directory' = listing
                  /\ defaultValidator' = "instance"
                  /\ defaultLoads' = defaultLoads + 1
       ELSE /\ schemaResult' = SchemaDone
            /\ UNCHANGED <<validators, ajvRefs, loads, directory, singletonVars>>
    /\ schemaCall' = SchemaCall("getSchemaValidator", "", "", {})
    /\ UNCHANGED <<driftVars, validatorVars, remembered, schemaFile>>

\* a validate call on the instance getSchemaValidator handed out
ValidateDefault ==
    /\ defaultValidator = "instance"
    /\ schemaCall.method = "getSchemaValidator" => ~schemaResult.threw
    /\ Validate

SchemaNext ==
    \/ LoadSchema
    \/ Validate
    \/ AssertValid

\* loads and validations on one SchemaValidator, in any order
SchemaSpec == SchemaInit /\ [][SchemaNext]_vars

RepeatNext ==
    \/ LoadEventSchema
    \/ ValidateAndKeep
    \/ Validate
    \/ AssertValid

BulkNext ==
    \/ LoadDocument
    \/ LoadAllMessageSchemas
    \/ Validate

\* single and bulk loads on one SchemaValidator
BulkSpec == SchemaInit /\ [][BulkNext]_vars

SingletonNext ==
    \/ GetSchemaValidator
    \/ ValidateDefault

\* the calls of one process to getSchemaValidator
SingletonSpec == SchemaInit /\ [][SingletonNext]_vars

\* the same, one validate call being kept for comparison with later ones
RepeatSpec == SchemaInit /\ [][RepeatNext]_vars

TypeOK ==
    /\ pc \in {"start", "wsdl_fetch", "wsdl_return", "msg_fetch", "msg_return",
               "report", "decide", "rejected", "done"}
    /\ Len(results) <= 2
    /\ Len(reports) <= 1
    /\ exitCode \in {0, 1}
    /\ outcome \in Outcomes \cup {"none"}

\* ---- Claims -----------------------------------------------------------------
Detail(text, value) == <<text, value>>

WsdlCompared ==
    /\ pc = "wsdl_return"
    /\ outcome = "ok"
    /\ localParsed.kind # "malformed"
    /\ liveParsed.kind # "malformed"

MsgCompared ==
    /\ pc = "msg_return"
    /\ outcome = "ok"
    /\ msgFile
    /\ localSchema.kind = "object"
    /\ liveSchema.kind = "object"

\* C1: when the local WSDL exists and APP2_STAGING_URL is set, a live fetch
\* that fails, by rejecting or by answering a non-success status, makes
\* checkWsdlDrift return drifted = true.
C1_FetchFailureIsDrift ==
    (pc = "wsdl_return" /\ outcome \in {"reject", "notok"}) => result.drifted

\* C2: when the local WSDL is read and the live WSDL is fetched with success,
\* every operation name declared locally but not live has its 'Operation
\* REMOVED' detail, every name declared live but not locally has its 'New
\* operation' detail, and drifted = true whenever such a name exists; also
\* for a binding with one operation or none.
C2_WsdlSymmetricDiff ==
    WsdlCompared =>
        /\ \A n \in DeclaredOps(localParsed) \ DeclaredOps(liveParsed) :
              Includes(result.details,
                       Detail("Operation REMOVED from live WSDL: ", n))
        /\ \A n \in DeclaredOps(liveParsed) \ DeclaredOps(localParsed) :
              Includes(result.details,
                       Detail("New operation in live WSDL: ", n))
        /\ (DeclaredOps(localParsed) # DeclaredOps(liveParsed) => result.drifted)

\* C3: when the endpoint answers with success and the local schema is read,
\* every required field of the local schema that the live schema lacks has
\* its 'Required field removed' detail, every required field of the live
\* schema that the local one lacks has its 'New required field' detail, and
\* drifted = true whenever such a field exists; an absent array is empty.
C3_MsgSymmetricDiff ==
    MsgCompared =>
        /\ \A f \in RequiredSet(localSchema) \ RequiredSet(liveSchema) :
              Includes(result.details,
                       Detail("Required field removed from live schema: ", f))
        /\ \A f \in RequiredSet(liveSchema) \ RequiredSet(localSchema) :
              Includes(result.details,
                       Detail("New required field in live schema: ", f))
        /\ (RequiredSet(localSchema) # RequiredSet(liveSchema) => result.drifted)

\* scenario B: the live schema requires one field more than the local one
C3_Witness ==
    /\ MsgCompared
    /\ localSchema.required = <<"eventId">>
    /\ liveSchema.required = <<"eventId", "priority">>
    /\ result.drifted
    /\ result.details = <<Detail("New required field in live schema: ", "priority")>>

\* C4: for both families, when the live artifact is fetched with success and
\* declares the same names as the local one, in any order and multiplicity,
\* the check returns drifted = false and exactly one 'match' detail.
C4_EqualSetsMatch ==
    /\ (WsdlCompared /\ DeclaredOps(localParsed) = DeclaredOps(liveParsed))
          => /\ ~result.drifted
             /\ result.details = <<Detail("All operations match", "")>>
    /\ (MsgCompared /\ RequiredSet(localSchema) = RequiredSet(liveSchema))
          => /\ ~result.drifted
             /\ result.details = <<Detail("Message schemas match", "")>>

\* C5: for each family, an absent local baseline file makes the check return
\* drifted = true with a detail that explains the missing baseline.
C5_MissingBaselineIsDrift ==
    /\ (pc = "wsdl_return" /\ ~wsdlFile)
          => /\ result.drifted
             /\ result.details = <<Detail("Local WSDL file not found", "")>>
    /\ (pc = "msg_return" /\ ~msgFile)
          => /\ result.drifted
             /\ Len(result.details) >= 1

\* C6: when the live-endpoint URL of a family is not configured (and, for
\* WSDL, the local baseline exists) the check performs no fetch and returns
\* drifted = false with exactly one 'skipping live ... fetch' detail.
C6_NoUrlSkipsFetch ==
    /\ (wsdlFile /\ ~app2Url) => WsdlUrl \notin fetched
    /\ ~integrationLayerUrl => MsgUrl \notin fetched
    /\ (pc = "wsdl_return" /\ wsdlFile /\ ~app2Url)
          => /\ ~result.drifted
             /\ outcome = "none"
             /\ result.details = <<Detail(
                  "APP2_STAGING_URL not set - skipping live WSDL fetch", "")>>
    /\ (pc = "msg_return" /\ ~integrationLayerUrl)
          => /\ ~result.drifted
             /\ outcome = "none"
             /\ result.details = <<Detail(
                  "INTEGRATION_LAYER_URL not set - skipping live schema fetch", "")>>

\* both checks of one run skipped their fetch
C6_Witness ==
    /\ pc = "msg_return"
    /\ wsdlFile /\ ~app2Url /\ ~integrationLayerUrl
    /\ fetched = {}
    /\ Len(results) = 1 /\ ~results[1].drifted /\ Len(results[1].details) = 1
    /\ ~result.drifted /\ Len(result.details) = 1

\* C7: when the configured endpoint answers with a non-success status,
\* checkMessageSchemaDrift returns drifted = false with the single 'manual
\* check required' detail, and the local schema file is not read.
C7_NotOkIsAdvisory ==
    (pc = "msg_return" /\ outcome = "notok")
        => /\ ~result.drifted
           /\ result.details = <<Detail(
                "Integration Layer does not expose schemas via API - manual check required", "")>>
           /\ MsgPath \notin filesRead
           /\ localSchema = NoJson

C7_Witness ==
    /\ pc = "msg_return"
    /\ outcome = "notok"
    /\ MsgUrl \in fetched
    /\ Len(result.details) = 1
    /\ MsgPath \notin filesRead

DriftedCount(rs) == Cardinality({k \in 1..Len(rs) : rs[k].drifted})
CleanCount(rs) == Cardinality({k \in 1..Len(rs) : ~rs[k].drifted})

OnePerFamily(rs) ==
    /\ Len(rs) = 2
    /\ rs[1].schema = WsdlSchemaName
    /\ rs[2].schema = MsgSchemaName

C8_Safety ==
    \* the message-schema check runs after the WSDL check, whatever it returned
    /\ pc \in {"msg_fetch", "msg_return"}
          => (Len(results) = 1 /\ results[1].schema = WsdlSchemaName
              /\ result.schema = MsgSchemaName)
    /\ pc \in {"report", "decide", "rejected", "done"} => OnePerFamily(results)
    \* a written report holds one result per family, in order
    /\ \A i \in 1..Len(reports) :
          OnePerFamily(reports[i].results) /\ reports[i].results = results
    \* main decides the status only once the report is written
    /\ pc = "decide" => Len(reports) = 1
    \* the only exception that reaches main().catch is generateReport's
    /\ pc = "rejected" => (Len(reports) = 0 /\ OnePerFamily(results))
    /\ pc = "done" => (Len(reports) = 1 \/ exitCode = 1)

C10_Inv ==
    \A i \in 1..Len(reports) :
        LET rs == reports[i].results
            sm == reports[i].summary
        IN  /\ sm.total = Len(rs)
            /\ sm.drifted = DriftedCount(rs)
            /\ sm.clean = CleanCount(rs)
            /\ sm.drifted + sm.clean = sm.total
            /\ rs = results

\* C10: in every persisted report summary.total is the number of results,
\* summary.drifted the number with drifted = true, summary.clean the number
\* with drifted = false, drifted + clean = total, and generateReport leaves
\* every DriftResult as it was.
C10_SummaryCounts ==
    /\ [](C10_Inv)
    /\ [][pc = "report" => results' = results]_vars

C10_Witness ==
    /\ Len(reports) = 1
    /\ reports[1].summary = [total |-> 2, drifted |-> 1, clean |-> 1]

\* ---- Claims on WsdlValidator --------------------------------------------------
\* validateSoapBody was the last call and returned
Validated == call.method = "validateSoapBody" /\ ~validation.threw

KnownOperation == MapHas(operations, call.operationName)

ExpectedWrapper ==
    call.operationName \o (IF call.direction = "input" THEN "Request" ELSE "Response")

\* the field list of the called operation for the called direction
ExpectedFields ==
    LET operation == MapGet(operations, call.operationName)
    IN  IF call.direction = "input" THEN operation.input ELSE operation.output

NamesOf(fields) == {fields[i].name : i \in 1..Len(fields)}
RequiredNamesOf(fields) == {fields[i].name : i \in {k \in 1..Len(fields) : fields[k].required}}
ChildSet(xml) == {xml.children[i] : i \in 1..Len(xml.children)}

\* xml2 is xml with other children, the same ones among `names`
SameUpTo(xml, xml2, names) ==
    /\ xml2.kind = xml.kind
    /\ xml2.wrapper = xml.wrapper
    /\ xml2.attrs = xml.attrs
    /\ ChildSet(xml2) \cap names = ChildSet(xml) \cap names

\* C11: every result of validateSoapBody has valid = true iff missingElements
\* is empty, and two bodies that differ only in children the expected field
\* list does not name get the same valid and the same missingElements.
C11_ValidIffNoneMissing ==
    Validated =>
        /\ validation.valid <=> (validation.missingElements = <<>>)
        /\ (KnownOperation /\ call.xml.kind = "body") =>
              \A xml2 \in SoapXmls :
                  SameUpTo(call.xml, xml2, NamesOf(ExpectedFields)) =>
                      LET other == validateSoapBody(operations, xml2,
                                       call.operationName, call.direction)
                      IN  /\ other.valid = validation.valid
                          /\ other.missingElements = validation.missingElements

\* C12: a request body that holds every field of operation O but one required
\* field f validates, for direction input, to valid = false with f among
\* missingElements; also when f is the only field of O.
C12_RemovedFieldIsMissing ==
    (Validated /\ KnownOperation /\ call.direction = "input"
       /\ call.xml.kind = "body" /\ call.xml.wrapper = ExpectedWrapper) =>
        \A f \in RequiredNamesOf(ExpectedFields) :
            (ChildSet(call.xml) \cap NamesOf(ExpectedFields)
                = NamesOf(ExpectedFields) \ {f})
            => /\ ~validation.valid
               /\ Includes(validation.missingElements, f)

\* C13: a body built as the wrapper '<O>Request' ('<O>Response') with one
\* child per field of O's own input (output) field list validates with
\* valid = true and no missing element; also when the field list is empty.
C13_RoundTrip ==
    (Validated /\ KnownOperation /\ call.xml.kind = "body"
       /\ call.xml.wrapper = ExpectedWrapper
       /\ ChildSet(call.xml) = NamesOf(ExpectedFields))
    => (validation.valid /\ validation.missingElements = <<>>)

RECURSIVE RequiredAbsent(_, _)
RequiredAbsent(fields, present) ==
    IF fields = <<>> THEN <<>>
    ELSE (IF Head(fields).required /\ Head(fields).name \notin present
          THEN <<Head(fields).name>> ELSE <<>>)
         \o RequiredAbsent(Tail(fields), present)

\* C14: when the wrapper is found, missingElements is exactly the expected
\* fields marked required whose name is not a child of the wrapper, in the
\* order of the field list; an optional field is never listed; the list is
\* the operation's input for direction input and its output for output.
C14_MissingExactly ==
    (Validated /\ KnownOperation /\ WrapperFound(call.xml, ExpectedWrapper)) =>
        /\ validation.missingElements
              = RequiredAbsent(ExpectedFields, ChildSet(call.xml))
        /\ \A i \in 1..Len(ExpectedFields) :
              ~ExpectedFields[i].required /\ ExpectedFields[i].name
                    \notin RequiredNamesOf(ExpectedFields)
              => ~Includes(validation.missingElements, ExpectedFields[i].name)

\* scenario C: a CreateOrder request without shippingAddress
C14_Witness ==
    /\ Validated /\ KnownOperation
    /\ call.operationName = "CreateOrder" /\ call.direction = "input"
    /\ WrapperFound(call.xml, "CreateOrderRequest")
    /\ call.xml.children = <<"customerId">>
    /\ Len(ExpectedFields) = 2
    /\ ~validation.valid
    /\ validation.missingElements = <<"shippingAddress">>

\* C15: for an operation name that is not in the model validateSoapBody
\* returns, without throwing and without parsing the XML, valid = false, one
\* missing entry that names the operation, and no unexpected element.
C15_UnknownOperation ==
    (call.method = "validateSoapBody" /\ ~KnownOperation) =>
        /\ ~validation.threw
        /\ ~validation.valid
        /\ validation.missingElements
              = <<"Operation not found: " \o call.operationName>>
        /\ validation.unexpectedElements = <<>>
        /\ validation.operation = call.operationName

\* an unknown operation called with an XML text the parser rejects
C15_Witness ==
    /\ call.method = "validateSoapBody"
    /\ lastLoad = "returned"
    /\ Len(operations) = 1
    /\ call.operationName = "GetOrderStatus"
    /\ call.xml.kind = "malformed"
    /\ ~validation.threw
    /\ Len(validation.missingElements) = 1

\* the named items of the source's element `name`, if it is declared
DeclaredItems(name) ==
    LET idx == {i \in 1..Len(source.elements) : source.elements[i].name = name}
    IN  IF idx = {} THEN <<>>
        ELSE SelectSeq(source.elements[CHOOSE i \in idx : TRUE].items,
                       LAMBDA it : it.name # NoAttr)

FieldsMatch(fields, items) ==
    /\ Len(fields) = Len(items)
    /\ \A i \in 1..Len(fields) :
          /\ fields[i].name = items[i].name
          /\ ~fields[i].required <=> (items[i].minOccurs = "0")
          /\ (fields[i].type = "complex") <=> (items[i].type = NoAttr)
          /\ items[i].type # NoAttr => fields[i].type = items[i].type

C17_AbsentElementInvalid ==
    (Validated /\ KnownOperation /\ lastLoad = "returned"
       /\ ~MapHas(rawElements, ExpectedWrapper))
    => (~validation.valid /\ validation.missingElements # <<>>)

DeclaredOpNames == {source.ops[i].name : i \in 1..Len(source.ops)}
DeclaredActions(n) ==
    {OrEmpty(source.ops[i].soapAction) : i \in {k \in 1..Len(source.ops) : source.ops[k].name = n}}

C19_ModelImmutable ==
    [][(lastLoad = "returned" /\ call'.method \in {"getOperations", "validateSoapBody"})
          => (operations' = operations /\ rawElements' = rawElements)]_vars

C19_Witness ==
    /\ lastLoad = "returned"
    /\ call.method = "validateSoapBody"
    /\ Len(operations) = 2
    /\ ~validation.threw /\ validation.valid

\* ---- Claims on SchemaValidator ------------------------------------------------
SchemaRegistered == MapHas(validators, schemaCall.schemaId)

\* C20: validate(id, payload) on an id that is not registered fails with an
\* error that lists the registered ids and leaves the registry as it was; on
\* a registered id it returns schemaId = id, and errors = null exactly when
\* valid is true.
C20_ValidateContract ==
    /\ [](schemaCall.method = "validate" =>
            /\ schemaResult.threw <=> ~SchemaRegistered
            /\ schemaResult.threw =>
                  schemaResult.message
                      = "Schema not loaded: " \o schemaCall.schemaId
                          \o ". Available: " \o Join(MapKeys(validators), ", ")
            /\ ~schemaResult.threw =>
                  /\ schemaResult.schemaId = schemaCall.schemaId
                  /\ schemaResult.errors.isNull <=> schemaResult.valid)
    /\ [][schemaCall'.method = "validate" => validators' = validators]_vars

\* an unregistered id asked of a registry that holds two ids
C20_Witness ==
    /\ schemaCall.method = "validate"
    /\ schemaCall.schemaId = "order-updated-event"
    /\ MapKeys(validators) = <<"order-created-event", DollarId>>
    /\ schemaResult.threw
    /\ schemaResult.message
          = "Schema not loaded: order-updated-event. Available: "
              \o "order-created-event, https://example.com/schemas/order-created-event"

\* the call repeats the kept validate call, no load having been made since
RepeatsKept ==
    /\ remembered.set
    /\ schemaCall.method = "validate"
    /\ schemaCall.schemaId = remembered.call.schemaId
    /\ schemaCall.payload = remembered.call.payload
    /\ loads = remembered.loads

ValidationFailed(id, errors) ==
    "Schema validation failed for " \o id \o ": " \o ErrorMessages(errors)

\* C22: assertValid(id, payload) throws the validation error iff
\* validate(id, payload) returns valid = false, returns when valid = true,
\* and throws validate's not-found error for an unregistered id; validate
\* itself never throws for a registered id.
C22_AssertValid ==
    /\ schemaCall.method = "assertValid" =>
          LET r == validate(validators, schemaCall.schemaId, schemaCall.payload)
          IN  /\ r.threw => schemaResult = r
              /\ (~r.threw /\ r.valid) => ~schemaResult.threw
              /\ (~r.threw /\ ~r.valid) =>
                    /\ schemaResult.threw
                    /\ schemaResult.message
                          = ValidationFailed(schemaCall.schemaId, r.errors)
              /\ (schemaResult.threw /\ schemaResult.message # r.message)
                    => (~r.threw /\ ~r.valid)
    /\ (schemaCall.method = "validate" /\ SchemaRegistered)
          => ~schemaResult.threw

\* a payload without the two required properties
C22_Witness ==
    /\ schemaCall.method = "assertValid"
    /\ schemaCall.schemaId = "order-created-event"
    /\ schemaCall.payload = {}
    /\ schemaResult.threw
    /\ schemaResult.message
          = "Schema validation failed for order-created-event: "
              \o " must have required property 'eventId'; "
              \o " must have required property 'priority'"

\* C24: a loadSchema call that throws leaves the registry as it was, and
\* every id validates every payload as before the call.
C24_FailedLoadAborts ==
    [][(schemaCall'.method = "loadSchema" /\ schemaResult'.threw) =>
          /\ validators' = validators
          /\ \A id \in CalledIds, payload \in Payloads :
                validate(validators', id, payload)
                    = validate(validators, id, payload)]_vars

\* the second load fails in the compiler, one schema being registered
C24_Witness ==
    /\ schemaCall.method = "loadSchema"
    /\ schemaResult.threw
    /\ schemaResult.message = "schema is invalid"
    /\ loads = 2
    /\ Len(validators) = 1

KeySet(m) == {m[i].key : i \in 1..Len(m)}
JsonEntries(listing) ==
    {listing.entries[i] : i \in {k \in 1..Len(listing.entries) :
                                    EndsWithJson(listing.entries[k])}}

\* the id the resolution order gives a loadSchema call
ResolvedId(c, file) ==
    IF c.schemaId # Undefined THEN c.schemaId
    ELSE IF file.id # NoAttr THEN file.id
    ELSE c.path

\* C23: a loadSchema call that returns registers the compiled schema under
\* one id: the caller's id if given, else the document's $id if it has one,
\* else the resolved path. loadAllMessageSchemas gives each '.json' file the
\* id that is its file name without '.schema.json', so no bulk-loaded
\* document is registered under its $id or its path.
C23_IdResolution ==
    /\ [][(schemaCall'.method = "loadSchema" /\ ~schemaResult'.threw) =>
            /\ KeySet(validators')
                  = KeySet(validators) \cup {ResolvedId(schemaCall', schemaFile')}
            /\ MapGet(validators', ResolvedId(schemaCall', schemaFile'))
                  = ValidateFunction(schemaFile')]_vars
    /\ [][schemaCall'.method = "loadAllMessageSchemas" =>
            \A k \in KeySet(validators') \ KeySet(validators) :
                /\ \E e \in JsonEntries(directory') :
                      k = IF e.suffix = ".schema.json" THEN e.stem
                          ELSE FileNameOf(e)
                /\ \A e \in JsonEntries(directory') :
                      k # e.file.id /\ k # PathOf(e)]_vars

\* every '.json' file of the listing that the default load read is registered
DefaultsComplete ==
    /\ directory.kind = "dir"
    /\ \A e \in JsonEntries(directory) :
          MapHas(validators, ChooseId(IdFromFileName(e), e.file, PathOf(e)))

\* C27: every getSchemaValidator call that returns hands out the one
\* instance, the default schemas are loaded at most once, and the instance
\* handed out has every default schema registered.
C27_SingletonComplete ==
    /\ [](defaultLoads <= 1)
    /\ []((schemaCall.method = "getSchemaValidator" /\ ~schemaResult.threw)
            => (defaultValidator = "instance" /\ DefaultsComplete))
    /\ [][(defaultValidator = "instance"
             /\ schemaCall'.method = "getSchemaValidator")
            => UNCHANGED <<defaultValidator, validators>>]_vars

\* ---- Claims on the details of a DriftResult ------------------------------------
SetOf(s) == {s[i] : i \in 1..Len(s)}
FirstIndex(s, x) == CHOOSE i \in 1..Len(s) : s[i] = x /\ \A j \in 1..(i - 1) : s[j] # x
WithText(details, text) == SelectSeq(details, LAMBDA d : d[1] = text)
ValuesOf(details) == [i \in 1..Len(details) |-> details[i][2]]

\* the loops of the WSDL comparison were reached, with these name lists
WsdlLoopsRan ==
    /\ WsdlCompared
    /\ ~extractOperationNames(localParsed).threw
    /\ ~extractOperationNames(liveParsed).threw
LocalOps == extractOperationNames(localParsed).value
LiveOps == extractOperationNames(liveParsed).value

\* the loops of the message comparison were reached
MsgLoopsRan ==
    /\ MsgCompared
    /\ ~RequiredOf(localSchema).threw
    /\ ~RequiredOf(liveSchema).threw
LocalRequired == RequiredOf(localSchema).value
LiveRequired == RequiredOf(liveSchema).value

\* one entry per name of the set, in the order of the names' first places
OnePerName(entries, names, list) ==
    /\ Len(entries) = Cardinality(names)
    /\ SetOf(ValuesOf(entries)) = names
    /\ \A i, j \in 1..Len(entries) :
          i < j => FirstIndex(list, entries[i][2]) < FirstIndex(list, entries[j][2])

DiffDetails(details, local, live, removedText, addedText) ==
    LET removed == WithText(details, removedText)
        added == WithText(details, addedText)
    IN  /\ (SetOf(local) # SetOf(live)) => details = removed \o added
        /\ OnePerName(removed, SetOf(local) \ SetOf(live), local)
        /\ OnePerName(added, SetOf(live) \ SetOf(local), live)

Lacking(names, others) == SelectSeq(names, LAMBDA n : n \notin SetOf(others))
Entries(text, names) == [i \in 1..Len(names) |-> Detail(text, names[i])]

DiffPerOccurrence(details, local, live, removedText, addedText) ==
    (SetOf(local) # SetOf(live)) =>
        details = Entries(removedText, Lacking(local, live))
                    \o Entries(addedText, Lacking(live, local))

MatchTexts == {"All operations match", "Message schemas match"}
ErrorTexts == {"Error checking WSDL drift: ", "Error checking message schema drift: "}

\* C29: every DriftResult a check returns has at least one detail; a 'match'
\* detail occurs only with drifted = false; a result of the catch branch has
\* drifted = false and the 'Error checking' entry as its only detail.
C29_DetailsShape ==
    pc \in {"wsdl_return", "msg_return"} =>
        /\ Len(result.details) >= 1
        /\ \A i \in 1..Len(result.details) :
              /\ result.details[i][1] \in MatchTexts => ~result.drifted
              /\ result.details[i][1] \in ErrorTexts =>
                    (~result.drifted /\ Len(result.details) = 1)

\* the local WSDL has a binding without operation: extraction throws
C29_Witness ==
    /\ pc = "wsdl_return"
    /\ outcome = "ok"
    /\ localParsed.kind = "binding" /\ localParsed.shape = "none"
    /\ ~result.drifted
    /\ result.details
          = <<Detail("Error checking WSDL drift: ",
                     "Cannot read properties of undefined (reading '@_name')")>>

\* ---- Claims on repeated loads and on the envelope ------------------------------
ElementNames(src) == {src.elements[i].name : i \in 1..Len(src.elements)}
OperationNames(src) == {src.ops[i].name : i \in 1..Len(src.ops)}
ElementOf(src, name) ==
    src.elements[CHOOSE i \in 1..Len(src.elements) :
                    /\ src.elements[i].name = name
                    /\ \A j \in (i + 1)..Len(src.elements) : src.elements[j].name # name]

\* the fields of element `name` as the document declares them, or else as
\* an earlier load recorded them
ResolvedFields(src, earlier, name) ==
    IF name \in ElementNames(src)
    THEN getElementFields(<<[key |-> name, val |-> ElementOf(src, name)]>>, name)
    ELSE getElementFields(earlier, name)

\* C30: a loadWsdl call on an instance that has loaded before keeps the
\* operations and elements of the earlier loads, replaces those whose name
\* the later document declares (names stay unique), and an operation of the
\* later document takes its fields from an element of an earlier load when
\* the later document does not declare that element.
C30_LoadsAccumulate ==
    [][(call'.method = "loadWsdl" /\ wsdlLoads' > 1) =>
          /\ KeySet(operations) \subseteq KeySet(operations')
          /\ KeySet(rawElements) \subseteq KeySet(rawElements')
          /\ Len(operations') = Cardinality(KeySet(operations'))
          /\ Len(rawElements') = Cardinality(KeySet(rawElements'))
          /\ \A k \in KeySet(rawElements) :
                (source'.kind # "ok" \/ k \notin ElementNames(source'))
                    => MapGet(rawElements', k) = MapGet(rawElements, k)
          /\ \A k \in KeySet(operations) :
                (lastLoad' = "threw" \/ k \notin OperationNames(source'))
                    => MapGet(operations', k) = MapGet(operations, k)
          /\ lastLoad' = "returned" =>
                \A k \in OperationNames(source') :
                    /\ MapHas(operations', k)
                    /\ MapGet(operations', k).input
                          = ResolvedFields(source', rawElements, k \o "Request")
                    /\ MapGet(operations', k).output
                          = ResolvedFields(source', rawElements, k \o "Response")]_vars

\* the second document declares GetOrderStatus and no element: CreateOrder
\* stays, GetOrderStatus takes its response fields from the first document
C30_Witness ==
    /\ call.method = "loadWsdl" /\ lastLoad = "returned"
    /\ wsdlLoads = 2
    /\ source.elements = <<>>
    /\ OperationNames(source) = {"GetOrderStatus"}
    /\ MapKeys(operations) = <<"CreateOrder", "GetOrderStatus">>
    /\ MapGet(operations, "GetOrderStatus").output
          = <<WsdlElement("customerId", "xs:string", TRUE)>>
    /\ MapGet(operations, "CreateOrder").input
          = <<WsdlElement("shippingAddress", "xs:string", FALSE)>>

BodyNotFound == validation.missingElements = <<"SOAP Body not found">>
WrapperNotFound ==
    validation.missingElements = <<ExpectedWrapper \o " element not found in SOAP Body">>

\* the envelope holds a Body element; the Body holds the expected wrapper
HasBody(xml) == xml.kind \in {"emptybody", "body"}
HasWrapper(xml) == xml.kind = "body" /\ xml.wrapper = ExpectedWrapper

\* C26: for a known operation validateSoapBody returns 'SOAP Body not found'
\* exactly when the envelope has no Body element, and '<wrapper> element not
\* found in SOAP Body' exactly when the Body has no child named
\* '<operation>Request' (input) or '<operation>Response' (output); a Body or
\* a wrapper without children counts as present.
C26_AbsentMeansAbsent ==
    (Validated /\ KnownOperation) =>
        /\ BodyNotFound <=> ~HasBody(call.xml)
        /\ WrapperNotFound <=> (HasBody(call.xml) /\ ~HasWrapper(call.xml))

\* ---- The two checks interleaved ---------------------------------------------
\* what checkWsdlDrift returns in the sequential run when its file test,
\* its endpoint test, its fetch and its two documents are these
SequentialWsdl(exists, url, o, localDoc, liveDoc) ==
    LET e == checkWsdlDriftEntry(exists, url)
    IN  IF e.fetch THEN checkWsdlDriftResume(e.result, o, localDoc, liveDoc)
        ELSE e.result

\* what checkMessageSchemaDrift returns in the sequential run when its
\* endpoint test, its fetch, its file test and its two schemas are these
SequentialMsg(url, o, exists, localDoc, liveDoc) ==
    LET e == checkMessageSchemaDriftEntry(url)
    IN  IF e.fetch THEN checkMessageSchemaDriftResume(e.result, o, exists, localDoc, liveDoc)
        ELSE e.result

====
